---- MODULE Spec2Model ----
(***************************************************************************)
(* Process supervision and log aggregation of TwitchYapBot                  *)
(* (src/src/bin/TwitchYapBot/{gui,bot_manager,ipc,log_util,toolbar}.rs).    *)
(*                                                                          *)
(* Threads modelled: the GUI thread (eframe update tick, toolbar buttons,   *)
(* on_exit), per run of the child the stdout reader, the stderr reader and  *)
(* the exit watcher, the thread of the Yap button, the IPC listener thread, *)
(* the logger thread, and the environment (child process, IPC clients).    *)
(***************************************************************************)
EXTENDS Integers, Sequences, FiniteSets, TLC

(***************************************************************************)
(* Bounds of the model.                                                     *)
(***************************************************************************)
\* VecDeque::with_capacity(200) in gui.rs:123, scaled down.
Capacity == 3
\* spawn attempts of the child over one session (the first is made by new()).
MaxRuns == 2
\* lines one run of the child writes, both streams together.
MaxEmit == 1
\* lines the child writes in the output-pump specification.
MaxLines == 2
\* toolbar button presses over one session.
MaxClicks == 2
\* connections clients make to the loopback listener over one session.
MaxConns == 2
\* pushes of the ring-buffer specification.
MaxPush == Capacity + 2
\* .log files that other programs create in the log directory.
MaxOther == 1
\* config.rs:20 has 10
MAX_LOG_FILES == 2

None == 0
Runs == 1..MaxRuns
Streams == {"stdout", "stderr"}

(***************************************************************************)
(* Text.  A string is a sequence of characters (one-character strings) or   *)
(* of words; the operations the code applies to it are computed.            *)
(***************************************************************************)
Min(a, b) == IF a < b THEN a ELSE b

\* str::contains(needle): needle occurs as a contiguous part of text.
contains_prefix(text, needle) ==
    Len(needle) <= Len(text) /\ SubSeq(text, 1, Len(needle)) = needle
contains(text, needle) ==
    \E i \in 1..(Len(text) + 1) :
        /\ i + Len(needle) - 1 <= Len(text)
        /\ SubSeq(text, i, i + Len(needle) - 1) = needle

\* char::is_whitespace on the characters of the model
IsWhitespace(c) == c \in {" ", "\n", "\r", "\t"}

\* str::trim: the text between its first and its last character that is not
\* whitespace
trim(s) ==
    LET solid == {i \in 1..Len(s) : ~IsWhitespace(s[i])}
    IN  IF solid = {} THEN <<>>
        ELSE SubSeq(s, CHOOSE i \in solid : \A j \in solid : i <= j,
                       CHOOSE i \in solid : \A j \in solid : j <= i)

\* String::from_utf8_lossy: a byte that is not valid UTF-8 becomes U+FFFD
from_utf8_lossy(bytes) ==
    [i \in 1..Len(bytes) |-> IF bytes[i] = "0xFF" THEN "U+FFFD" ELSE bytes[i]]

\* the denylisted substring of bot_manager.rs:137 and :155
GenerateNoise == <<"Generate command triggered manually">>

\* what the child may write as one line: a plain line, a line containing
\* the denylisted substring, and a line that is not valid UTF-8 (read error).
PlainText == <<"hello">>
NoiseTexts == { <<"[INFO]", "Generate command triggered manually", "by user">> }
ChildTexts == {PlainText} \cup NoiseTexts

\* fixed lines of the supervisor
DestroyedText == <<"[ts]", "Yap Bot has been destroyed by your own hands...">>
ReviveText == <<"[ts]:", "Reviving Yap Bot from the depths of hell...">>
YapText == <<"[ts]:", "(manual trigger)">>

\* a line of the output buffer, of the notification channel or of the log:
\* its text and where it comes from (src, run, n identify the emission).
Line(src, run, n, text) == [src |-> src, run |-> run, n |-> n, text |-> text]

(***************************************************************************)
(* VecDeque<String> as the code uses it: the items and the capacity.        *)
(***************************************************************************)
with_capacity(c) == [items |-> <<>>, cap |-> c]

\* growth of a full VecDeque on push_back (amortised doubling)
grow(cap) == IF 2 * cap > 4 THEN 2 * cap ELSE 4

\* a push that starts from a fresh deque
push_back_fresh(dq, x) == [items |-> <<x>>, cap |-> dq.cap]
push_back(dq, x) ==
    [items |-> Append(dq.items, x),
     cap |-> IF Len(dq.items) = dq.cap THEN grow(dq.cap) ELSE dq.cap]

pop_front(dq) ==
    IF dq.items = <<>> THEN dq ELSE [dq EXCEPT !.items = Tail(@)]

pop_back(dq) ==
    IF dq.items = <<>> THEN dq
    ELSE [dq EXCEPT !.items = SubSeq(@, 1, Len(@) - 1)]

\* gui.rs:243-249
push_log_line_pop_back(buffer, line) ==
    LET buf == IF Len(buffer.items) = buffer.cap THEN pop_back(buffer) ELSE buffer
    IN  push_back(buf, line)
push_log_line(buffer, line) ==
    LET buf == IF Len(buffer.items) = buffer.cap THEN pop_front(buffer) ELSE buffer
    IN  push_back(buf, line)

VARIABLES
    windows,        \* the build target: cfg(windows)
    output_lines,   \* app.output_lines, the shared VecDeque
    chan,           \* lines sent on the channel whose receiver is app.rx
    rxRun,          \* the run whose senders feed app.rx (None: disconnected)
    child,          \* app.child: None or the run whose handle is stored
    child_pid,      \* app.child_pid: None or the run whose pid is stored
    nruns,          \* spawn attempts made so far
    proc,           \* run -> "unused" | "failed" | "running" | "exited"
    emitted,        \* run -> stream -> number of lines read from the stream
    rd,             \* run -> stream -> reader thread: [pc, line]
    watcher,        \* run -> exit watcher thread: "none" | "waiting" | "done", and
                    \*        "locked" where the lock it holds on the Child matters
    skipped,        \* the lines the readers dropped: [run, stream, n, why]
    killReq,        \* run -> what stop_bot did about it: "none" | "ok" |
                    \*        "failed" | "notsent" (forgotten with no kill issued)
    logq,           \* thread -> the lines it handed to log_message, in order
    gpc,            \* position of the GUI thread
    stopRet,        \* where stop_bot returns to
    restartRet,     \* where restart_bot returns to
    clicks,         \* toolbar button presses so far
    yap,            \* the threads of the Yap button: their positions
    flag,           \* ipc_restart_flag
    conns,          \* connections made to 127.0.0.1:9876, in arrival order:
                    \*   [payload, st, res], st = "sent" (the client wrote payload,
                    \*   an empty payload being a close), "open" (nothing written
                    \*   yet), "reset" (the read fails); res = what the listener
                    \*   did with it: "waiting" | "set" | "ignored"; served =
                    \*   a restart_bot call has begun since the listener set the
                    \*   flag for it
    lsn,            \* the listener thread: [pc, cur]
    pushed,         \* ring-buffer specification: the lines pushed, in order
    files,          \* the .log files of the log directory: [name, created, locked]
    lg,             \* the logger: [pc, env, pick, path, clock, pre, writes, others,
                    \*   sd], sd = position of Shutdown in its channel (0: not sent)
    mutex,          \* the thread that holds the Mutex of output_lines, or Free
    snap            \* the copy render_output_log works on: [pc, lines]

vars == <<windows, output_lines, chan, rxRun, child, child_pid, nruns, proc,
          emitted, rd, watcher, skipped, killReq, logq, gpc, stopRet, restartRet,
          clicks, yap, flag, conns, lsn, pushed, files, lg, mutex, snap>>

procVars == <<proc, emitted, rd, watcher, skipped>>
guiVars == <<gpc, stopRet, restartRet, clicks>>
appVars == <<output_lines, chan, rxRun, child, child_pid, nruns, killReq>>
ipcVars == <<flag, conns, lsn>>
logVars == <<files, lg>>
lockVars == <<mutex, snap>>

(***************************************************************************)
(* The state after TwitchYapBotApp::new(): the buffer is empty, the first   *)
(* run has been spawned (or the spawn failed and no handle is stored), the  *)
(* listener thread is about to accept.                                      *)
(***************************************************************************)
NoReader == [pc |-> "none", line |-> Line("none", None, 0, <<>>)]
ReadyReader == [pc |-> "read", line |-> Line("none", None, 0, <<>>)]

RunLog == Line("log", None, 0, <<"--- Twitch Yap Bot Run ---">>)

\* the threads that call log_message: the GUI thread (with the thread that
\* spawns the child, which the GUI thread waits for), the readers, the watchers
GuiThread == <<"gui", 0, "">>
ReaderThread(r, s) == <<"reader", r, s>>
WatcherThread(r) == <<"watcher", r, "">>

\* the Mutex around the output buffer (gui.rs:123): mutex is the thread that
\* holds it, Free when no thread does; snap is the copy that
\* render_output_log makes of the buffer (output.rs:128-131)
Free == <<"free", 0, "">>
NoSnapshot == [pc |-> "none", lines |-> <<>>]
LogThreads ==
    {GuiThread} \cup {ReaderThread(r, s) : r \in Runs, s \in Streams}
                \cup {WatcherThread(r) : r \in Runs}

\* log_message, log_util.rs:87-89: the line is sent on the logger's channel.
\* The channel keeps the order of each sender; the order between senders is
\* the order of arrival, which nothing here depends on.
log_message(t, lines) == [logq EXCEPT ![t] = @ \o lines]

(***************************************************************************)
(* The log directory and the logger, log_util.rs.  A .log file has a name,  *)
(* a creation time (all distinct) and may be undeletable (remove_file       *)
(* fails, which rotate_logs ignores).  Files that existed at launch carry   *)
(* the names and creation times 1..n, oldest first; names below 0 are       *)
(* files that other programs create; name 0 is a session file name that no  *)
(* file of the directory carries yet.                                       *)
(***************************************************************************)
LogFile(name, created, locked) == [name |-> name, created |-> created, locked |-> locked]

\* log_util.rs:25-41: the files are sorted by creation time and, while more
\* than MAX_LOG_FILES are listed, the first is removed from the disk (if
\* that works) and from the list
rotate_logs_drop_newest(dir) ==
    LET excess == Cardinality(dir) - MAX_LOG_FILES
        newest == {f \in dir : Cardinality({g \in dir : g.created > f.created}) < excess}
    IN  dir \ {f \in newest : ~f.locked}
rotate_logs(dir) ==
    LET excess == Cardinality(dir) - MAX_LOG_FILES
        oldest == {f \in dir : Cardinality({g \in dir : g.created < f.created}) < excess}
    IN  dir \ {f \in oldest : ~f.locked}

\* OpenOptions::new().create(true).append(true).open(&log_path),
\* log_util.rs:62: the file is created if no file has that name
open_append(dir, name, now) ==
    IF \E f \in dir : f.name = name THEN dir
    ELSE dir \cup {LogFile(name, now, FALSE)}

\* the files present at launch
PreExisting(n, undeletable) == {LogFile(k, k, k \in undeletable) : k \in 1..n}

\* the logger of the supervisor and of the ring-buffer specifications: it
\* runs, with its session file alone in the directory
LoggerRunning ==
    /\ files = {LogFile(0, 1, FALSE)}
    /\ lg = [pc |-> "run", env |-> FALSE, pick |-> 0, path |-> 0, clock |-> 2,
             pre |-> {}, writes |-> 0, others |-> 0, sd |-> 0]

\* LOGGER is about to be initialised (log_util.rs:14): up to
\* MAX_LOG_FILES + 2 files exist, at most one of them undeletable;
\* YAPBOT_LOG_PATH is set or not.  pick is the name of the session file: 0,
\* or a name that exists (with YAPBOT_LOG_PATH any file of the directory,
\* without it the newest one, made in the same second)
LoggerStarting ==
    \E n \in 0..(MAX_LOG_FILES + 2), env \in BOOLEAN :
    \E u \in {{}} \cup {{k} : k \in 1..n}, pick \in 0..n :
        /\ env \/ pick \in {0, n}
        /\ files = PreExisting(n, u)
        /\ lg = [pc |-> "init", env |-> env, pick |-> pick, path |-> 0, clock |-> n + 1,
                 pre |-> PreExisting(n, u), writes |-> 0, others |-> 0, sd |-> 0]

InitFields ==
    /\ windows \in BOOLEAN
    /\ chan = <<>>
    /\ nruns = 1
    /\ \E ok \in BOOLEAN :
        /\ proc = [r \in Runs |-> IF r = 1 THEN (IF ok THEN "running" ELSE "failed") ELSE "unused"]
        /\ rd = [r \in Runs |-> [s \in Streams |-> IF r = 1 /\ ok THEN ReadyReader ELSE NoReader]]
        /\ watcher = [r \in Runs |-> IF r = 1 /\ ok THEN "waiting" ELSE "none"]
        /\ child = IF ok THEN 1 ELSE None
        /\ child_pid = IF ok THEN 1 ELSE None
        /\ rxRun = IF ok THEN 1 ELSE None
    /\ emitted = [r \in Runs |-> [s \in Streams |-> 0]]
    /\ skipped = {}
    /\ killReq = [r \in Runs |-> "none"]
    /\ logq = [t \in LogThreads |-> IF t = GuiThread THEN <<RunLog>> ELSE <<>>]
    /\ gpc = "toolbar"
    /\ stopRet = "drain"
    /\ restartRet = "drain"
    /\ clicks = 0
    /\ yap = <<>>
    /\ flag = FALSE
    /\ conns = <<>>
    /\ lsn = [pc |-> "accept", cur |-> 0]
    /\ mutex = Free
    /\ snap = NoSnapshot

\* gui.rs:123
InitApp == output_lines = with_capacity(Capacity) /\ InitFields

Init == InitApp /\ pushed = <<>> /\ LoggerRunning

Running == gpc # "exited"

(***************************************************************************)
(* The child process (environment) and its pipes.  What the child has       *)
(* written to a pipe is seen by the reader of that pipe alone, so a line    *)
(* enters the model when the reader takes it: lines written before the     *)
(* child died are still read after its death, until end of file.            *)
(***************************************************************************)
\* the child exits on its own
ChildExit(r) ==
    /\ Running
    /\ proc[r] = "running"
    /\ proc' = [proc EXCEPT ![r] = "exited"]
    /\ UNCHANGED <<windows, appVars, emitted, rd, watcher, skipped, logq, guiVars, yap,
                   ipcVars, pushed, logVars, lockVars>>

(***************************************************************************)
(* The reader threads, bot_manager.rs:132-147 (stdout), 151-165 (stderr).   *)
(***************************************************************************)
LogTag(s) == IF s = "stdout" THEN "[MarkovChainBot.py]" ELSE "[MarkovChainBot.py][stderr]"

\* the filter of bot_manager.rs:137 and :155
is_forwarded_unless_prefix(text) == ~contains_prefix(text, GenerateNoise)
is_forwarded(text) == ~contains(text, GenerateNoise)

\* the reader after lines() has yielded Err: `if let Ok(line) = line` has no
\* else branch (bot_manager.rs:135, 154), the for loop goes on
after_error_done(reader) == [pc |-> "done", line |-> NoReader.line]
after_error(reader) == reader

\* for line in reader.lines(): the next line of the stream (err: it is not
\* valid UTF-8 and lines() yields Err).  A read error or a denylisted line
\* is skipped; any other line is handed to the logger and sent on tx (the
\* send fails silently once the receiver of that run has been replaced).
ReaderRead(r, s, texts, errs, max) ==
    /\ Running
    /\ rd[r][s].pc = "read"
    /\ emitted[r]["stdout"] + emitted[r]["stderr"] < max
    /\ emitted' = [emitted EXCEPT ![r][s] = @ + 1]
    /\ \E text \in texts, err \in errs :
        /\ err => text = PlainText
        /\ LET line == Line(s, r, emitted[r][s] + 1, text) IN
           IF ~err /\ is_forwarded(text)
           THEN /\ logq' = log_message(ReaderThread(r, s),
                               <<Line("log", r, line.n, <<LogTag(s)>> \o text)>>)
                /\ chan' = IF rxRun = r THEN Append(chan, line) ELSE chan
                /\ rd' = [rd EXCEPT ![r][s] = [pc |-> "push", line |-> line]]
                /\ UNCHANGED skipped
           ELSE /\ skipped' = skipped \cup
                        {[run |-> r, stream |-> s, n |-> line.n,
                          why |-> IF err THEN "err" ELSE "noise"]}
                /\ rd' = [rd EXCEPT ![r][s] = IF err THEN after_error(@) ELSE @]
                /\ UNCHANGED <<logq, chan>>
    /\ UNCHANGED <<windows, output_lines, rxRun, child, child_pid, nruns, killReq,
                   proc, watcher, guiVars, yap, ipcVars, pushed, logVars, lockVars>>

\* out_lines.lock().unwrap().push_back(line)
ReaderPush(r, s) ==
    /\ Running
    /\ rd[r][s].pc = "push"
    /\ output_lines' = push_back(output_lines, rd[r][s].line)
    /\ rd' = [rd EXCEPT ![r][s] = ReadyReader]
    /\ UNCHANGED <<windows, chan, rxRun, child, child_pid, nruns, killReq, proc,
                   emitted, watcher, skipped, logq, guiVars, yap, ipcVars, pushed, logVars, lockVars>>

\* end of file: the process is gone and the pipe is drained
ReaderEof(r, s) ==
    /\ Running
    /\ rd[r][s].pc = "read"
    /\ proc[r] = "exited"
    /\ rd' = [rd EXCEPT ![r][s] = [pc |-> "done", line |-> NoReader.line]]
    /\ UNCHANGED <<windows, appVars, proc, emitted, watcher, skipped, logq, guiVars, yap,
                   ipcVars, pushed, logVars, lockVars>>

ExitedText == <<"[MarkovChainBot.py] exited with status">>

\* child.wait() of the watcher, bot_manager.rs:169: it returns once the
\* process has ended
wait_returns_never(p) == FALSE
wait_returns(p) == p = "exited"

\* what the exit watcher puts on the notification channel: nothing, it has
\* no sender (bot_manager.rs:167-174)
watcher_forwards_exit(ch, line) == Append(ch, line)
watcher_forwards(ch, line) == ch

\* the exit watcher, bot_manager.rs:168-174
WatcherExit(r) ==
    /\ Running
    /\ watcher[r] = "waiting"
    /\ wait_returns(proc[r])
    /\ watcher' = [watcher EXCEPT ![r] = "done"]
    /\ logq' = log_message(WatcherThread(r), <<Line("log", r, 0, ExitedText)>>)
    /\ chan' = watcher_forwards(chan, Line("watcher", r, 0, ExitedText))
    /\ UNCHANGED <<windows, output_lines, rxRun, child, child_pid, nruns, killReq,
                   proc, emitted, rd, skipped, guiVars, yap, ipcVars, pushed, logVars, lockVars>>

(***************************************************************************)
(* The GUI thread.  One tick of update() is: the toolbar (a button may be   *)
(* pressed), the drain of rx through push_log_line, the check of the IPC    *)
(* flag.  settings_dialog.needs_restart (gui.rs:214) is set only by         *)
(* save_settings, which runs in the settings-window process, so that check  *)
(* never fires in the main application.                                     *)
(***************************************************************************)
GuiLog(text) == Line("log", None, 0, <<"[TwitchYapBot.exe]", text>>)

\* toolbar.rs:85-325 with no button pressed
GuiNoClick ==
    /\ gpc = "toolbar"
    /\ gpc' = "drain"
    /\ UNCHANGED <<windows, appVars, procVars, logq, stopRet, restartRet, clicks, yap,
                   ipcVars, pushed, logVars, lockVars>>

\* toolbar.rs:258-264, the Murder button
GuiMurder ==
    /\ gpc = "toolbar"
    /\ clicks < MaxClicks
    /\ clicks' = clicks + 1
    /\ logq' = log_message(GuiThread, <<GuiLog("[GUI] Murder button pressed")>>)
    /\ gpc' = "stop_bot"
    /\ stopRet' = "drain"
    /\ UNCHANGED <<windows, appVars, procVars, restartRet, yap, ipcVars, pushed, logVars, lockVars>>

\* toolbar.rs:248-254, the Revive button
GuiRevive ==
    /\ gpc = "toolbar"
    /\ clicks < MaxClicks
    /\ nruns < MaxRuns
    /\ clicks' = clicks + 1
    /\ logq' = log_message(GuiThread, <<GuiLog("[GUI] Revive button pressed")>>)
    /\ gpc' = "restart_bot"
    /\ restartRet' = "drain"
    /\ UNCHANGED <<windows, appVars, procVars, stopRet, yap, ipcVars, pushed, logVars, lockVars>>

\* toolbar.rs:268-319, the Yap button: a thread is spawned
GuiYap ==
    /\ gpc = "toolbar"
    /\ clicks < MaxClicks
    /\ clicks' = clicks + 1
    /\ logq' = log_message(GuiThread, <<GuiLog("[GUI] Yap button pressed")>>)
    /\ yap' = Append(yap, "connect")
    /\ gpc' = "drain"
    /\ UNCHANGED <<windows, appVars, procVars, stopRet, restartRet, ipcVars, pushed, logVars, lockVars>>

\* stop_bot, bot_manager.rs:30-63.  On Windows with a stored pid, taskkill is
\* run: it terminates the process tree ("ok"), or it does not ("failed":
\* it runs and fails, for instance because the process is already gone, or it
\* cannot be run at all; both leave the same state, as a failing taskkill
\* writes nothing to its stdout).
TaskkillOutcomes(pid) ==
    IF proc[pid] = "running" THEN {"ok", "failed"} ELSE {"failed"}

\* bot_manager.rs:58-59: what app.child and app.child_pid hold after stop_bot,
\* given the outcome of the kill and what they held
stored_after_stop_unless_failed(out, old) == IF out = "failed" THEN old ELSE None
stored_after_stop(out, old) == None

StopBot ==
    /\ gpc = "stop_bot"
    /\ \E out \in (IF windows /\ child_pid # None
                  THEN TaskkillOutcomes(child_pid) ELSE {"notsent"}) :
        /\ killReq' = [r \in Runs |-> IF r \in {child, child_pid} THEN out ELSE killReq[r]]
        /\ proc' = IF out = "ok" THEN [proc EXCEPT ![child_pid] = "exited"] ELSE proc
        /\ logq' = log_message(GuiThread,
                (IF out = "notsent" THEN <<>>
                 ELSE <<Line("log", child_pid, 0, <<"[DEBUG] Ran: taskkill">>),
                        GuiLog("[DEBUG] Ran: taskkill")>>)
                \o (IF out = "ok" THEN <<Line("log", child_pid, 0, <<"SUCCESS">>)>> ELSE <<>>)
                \o <<GuiLog("Yap Bot has been destroyed by your own hands...")>>)
        /\ child' = stored_after_stop(out, child)
        /\ child_pid' = stored_after_stop(out, child_pid)
    /\ output_lines' = push_back(output_lines,
            Line("destroyed", child_pid, IF stopRet = "spawn" THEN nruns + 1 ELSE 0,
                 DestroyedText))
    /\ gpc' = stopRet
    /\ UNCHANGED <<windows, chan, rxRun, nruns, emitted, rd, watcher, skipped, stopRet,
                   restartRet, clicks, yap, ipcVars, pushed, logVars, lockVars>>

\* bot_manager.rs:69: restart_bot stops first if a handle or a pid is stored
restart_needs_stop_never(c, p) == FALSE
restart_needs_stop(c, p) == c # None \/ p # None

\* restart_bot, bot_manager.rs:69-71; the call begins here, after every
\* message the listener has set the flag for so far
RestartBot ==
    /\ gpc = "restart_bot"
    /\ IF restart_needs_stop(child, child_pid)
       THEN gpc' = "stop_bot" /\ stopRet' = "spawn"
       ELSE gpc' = "spawn" /\ UNCHANGED stopRet
    /\ conns' = [i \in DOMAIN conns |->
                   IF conns[i].res = "set" THEN [conns[i] EXCEPT !.served = TRUE]
                   ELSE conns[i]]
    /\ UNCHANGED <<windows, appVars, procVars, logq, restartRet, clicks, yap, flag, lsn,
                   pushed, logVars, lockVars>>

\* child_receiver.recv().unwrap_or((None, None)), bot_manager.rs:81 and
\* gui.rs:131: the handle and pid of run r, or None if the spawning thread
\* panicked at bot_manager.rs:124 and dropped its sender
recv_or_none_always_some(ok, r) == r
recv_or_none(ok, r) == IF ok THEN r ELSE None

\* restart_bot, bot_manager.rs:73-85, with run_markov_chain_bot (100-176) in
\* the spawned thread: the new run and its three threads exist when recv()
\* returns; if cmd.spawn() fails the thread panics and recv() yields
\* (None, None), with the sender of the new channel dropped.
Spawn ==
    /\ gpc = "spawn"
    /\ nruns < MaxRuns
    /\ LET r == nruns + 1 IN
       /\ nruns' = r
       /\ logq' = log_message(GuiThread, <<RunLog>>)
       /\ chan' = <<>>
       /\ \E ok \in BOOLEAN :
          IF ok
          THEN /\ proc' = [proc EXCEPT ![r] = "running"]
               /\ rd' = [rd EXCEPT ![r] = [s \in Streams |-> ReadyReader]]
               /\ watcher' = [watcher EXCEPT ![r] = "waiting"]
               /\ child' = recv_or_none(ok, r) /\ child_pid' = recv_or_none(ok, r)
               /\ rxRun' = r
          ELSE /\ proc' = [proc EXCEPT ![r] = "failed"]
               /\ child' = recv_or_none(ok, r) /\ child_pid' = recv_or_none(ok, r)
               /\ rxRun' = None
               /\ UNCHANGED <<rd, watcher>>
    /\ gpc' = "restart_msg"
    /\ UNCHANGED <<windows, output_lines, killReq, emitted, skipped, stopRet, restartRet,
                   clicks, yap, ipcVars, pushed, logVars, lockVars>>

\* restart_bot, bot_manager.rs:86-89
RestartMsg ==
    /\ gpc = "restart_msg"
    /\ output_lines' = push_back(output_lines, Line("msg", nruns, 0, ReviveText))
    /\ gpc' = restartRet
    /\ UNCHANGED <<windows, chan, rxRun, child, child_pid, nruns, killReq, procVars, logq,
                   stopRet, restartRet, clicks, yap, ipcVars, pushed, logVars, lockVars>>

\* gui.rs:203-213, one iteration of the while let loop
GuiDrainOne ==
    /\ gpc = "drain"
    /\ chan # <<>>
    /\ output_lines' = push_log_line(output_lines, Head(chan))
    /\ chan' = Tail(chan)
    /\ UNCHANGED <<windows, rxRun, child, child_pid, nruns, killReq, procVars, logq,
                   guiVars, yap, ipcVars, pushed, logVars, lockVars>>

\* gui.rs:205 and 219-220: try_recv() finds the channel empty (or
\* disconnected), then the flag is loaded
GuiDrainDone ==
    /\ gpc = "drain"
    /\ chan = <<>>
    /\ IF flag
       THEN gpc' = "restart_bot" /\ restartRet' = "ipc_store"
       ELSE gpc' = "toolbar" /\ UNCHANGED restartRet
    /\ UNCHANGED <<windows, appVars, procVars, logq, stopRet, clicks, yap, ipcVars, pushed, logVars, lockVars>>

\* ipc_restart_flag.store(false, ..), gui.rs:221
flag_after_restart_kept(f) == f
flag_after_restart(f) == FALSE

\* gui.rs:221-222
GuiIpcStore ==
    /\ gpc = "ipc_store"
    /\ flag' = flag_after_restart(flag)
    /\ gpc' = "toolbar"
    /\ UNCHANGED <<windows, appVars, procVars, logq, stopRet, restartRet, clicks, yap,
                   conns, lsn, pushed, logVars, lockVars>>

\* on_exit, gui.rs:235-236: the window is closed between two ticks
GuiOnExit ==
    /\ gpc = "toolbar"
    /\ gpc' = "stop_bot"
    /\ stopRet' = "on_exit"
    /\ UNCHANGED <<windows, appVars, procVars, logq, restartRet, clicks, yap, ipcVars, pushed, logVars, lockVars>>

\* lines handed to log_message so far, by all threads
RECURSIVE Queued(_)
Queued(T) ==
    IF T = {} THEN 0
    ELSE LET t == CHOOSE x \in T : TRUE IN Len(logq[t]) + Queued(T \ {t})

\* on_exit, gui.rs:237-238: the closing line, then LogMsg::Shutdown
\* (log_util.rs:82-84, 110-112); lg.sd is the position of Shutdown among
\* the messages of the logger's channel.  on_exit returns, main returns
\* after run_native (main.rs:69-77), and the threads of the application
\* take no further step
GuiExit ==
    /\ gpc = "on_exit"
    /\ logq' = log_message(GuiThread,
            <<GuiLog("[GUI] Main window closed (x button in windows)"),
              Line("shutdown", None, 0, <<>>)>>)
    /\ lg' = [lg EXCEPT !.sd = Queued(LogThreads) + 2]
    /\ gpc' = "exited"
    /\ UNCHANGED <<windows, appVars, procVars, stopRet, restartRet, clicks, yap, ipcVars,
                   pushed, files, lockVars>>

(***************************************************************************)
(* The thread of the Yap button, toolbar.rs:271-318.                        *)
(***************************************************************************)
RemoveAt(seq, i) == SubSeq(seq, 1, i - 1) \o SubSeq(seq, i + 1, Len(seq))

\* the connection attempts: connected, or the error line is appended
YapConnect(i) ==
    /\ Running
    /\ i \in DOMAIN yap /\ yap[i] = "connect"
    /\ \E connected \in BOOLEAN :
        output_lines' = IF connected THEN output_lines
                        ELSE push_back(output_lines, Line("yap_err", None, 0, <<"[ts]:", "ERROR">>))
    /\ yap' = [yap EXCEPT ![i] = "msg"]
    /\ UNCHANGED <<windows, chan, rxRun, child, child_pid, nruns, killReq, procVars, logq,
                   guiVars, ipcVars, pushed, logVars, lockVars>>

\* toolbar.rs:317
YapMsg(i) ==
    /\ Running
    /\ i \in DOMAIN yap /\ yap[i] = "msg"
    /\ output_lines' = push_back(output_lines, Line("yap", None, 0, YapText))
    /\ yap' = RemoveAt(yap, i)
    /\ UNCHANGED <<windows, chan, rxRun, child, child_pid, nruns, killReq, procVars, logq,
                   guiVars, ipcVars, pushed, logVars, lockVars>>

(***************************************************************************)
(* The restart listener, ipc.rs:9-25, and its clients.                      *)
(***************************************************************************)
RESTART_BOT == <<"R", "E", "S", "T", "A", "R", "T", "_", "B", "O", "T">>
Spaces21 == [i \in 1..21 |-> " "]

\* what a client may write
Payloads ==
    { RESTART_BOT,
      <<"r", "e", "s", "t", "a", "r", "t", "_", "b", "o", "t">>,
      <<"R", "E", "S", "T", "A", "R", "T">>,
      <<>>,
      <<" ">> \o RESTART_BOT \o <<"\n">>,
      RESTART_BOT \o Spaces21 \o <<"X">>,
      <<"0xFF">> \o RESTART_BOT }

\* let mut buf = [0u8; 32]
BufSize == 32

\* stream.read(&mut buf): at most BufSize bytes of what was written
read(payload) == SubSeq(payload, 1, Min(BufSize, Len(payload)))

\* ipc.rs:18, on the decoded message
is_restart_msg_no_case(msg) ==
    LET up(c) == CASE c = "r" -> "R" [] c = "e" -> "E" [] c = "s" -> "S" [] c = "t" -> "T"
                   [] c = "a" -> "A" [] c = "b" -> "B" [] c = "o" -> "O" [] OTHER -> c
        t == trim(msg)
    IN  [i \in 1..Len(t) |-> up(t[i])] = RESTART_BOT
is_restart_msg(msg) == trim(msg) = RESTART_BOT

\* a client connects (settings.rs:341-342 writes at once and drops the
\* stream; another client may connect and write nothing, or be reset)
ClientConnect(payloads) ==
    /\ Running
    /\ Len(conns) < MaxConns
    /\ \E p \in payloads, st \in {"sent", "open", "reset"} :
        conns' = Append(conns, [payload |-> p, st |-> st, res |-> "waiting",
                                served |-> FALSE])
    /\ UNCHANGED <<windows, appVars, procVars, logq, guiVars, yap, flag, lsn, pushed, logVars, lockVars>>

\* a client that held its connection open writes its payload
ClientSend(i) ==
    /\ i \in DOMAIN conns /\ conns[i].st = "open"
    /\ conns' = [conns EXCEPT ![i].st = "sent"]
    /\ UNCHANGED <<windows, appVars, procVars, logq, guiVars, yap, flag, lsn, pushed, logVars, lockVars>>

\* for stream in listener.incoming(), ipc.rs:13-14
LsnAccept ==
    /\ Running
    /\ lsn.pc = "accept"
    /\ lsn.cur < Len(conns)
    /\ lsn' = [pc |-> "read", cur |-> lsn.cur + 1]
    /\ UNCHANGED <<windows, appVars, procVars, logq, guiVars, yap, flag, conns, pushed, logVars, lockVars>>

\* ipc.rs:15-21: the read blocks while the client has written nothing; the
\* stream is dropped at the end of the iteration
LsnRead ==
    /\ Running
    /\ lsn.pc = "read"
    /\ conns[lsn.cur].st \in {"sent", "reset"}
    /\ \E buf \in {read(conns[lsn.cur].payload)} :
       \E msg \in {from_utf8_lossy(buf)} :
        LET hit == conns[lsn.cur].st = "sent" /\ is_restart_msg(msg)
        IN  /\ flag' = IF hit THEN TRUE ELSE flag
            /\ conns' = [conns EXCEPT ![lsn.cur].res = IF hit THEN "set" ELSE "ignored"]
    /\ lsn' = [lsn EXCEPT !.pc = "accept"]
    /\ UNCHANGED <<windows, appVars, procVars, logq, guiVars, yap, pushed, logVars, lockVars>>

(***************************************************************************)
(* The supervisor: the GUI thread with its buttons, the runs of the child   *)
(* and their reader threads.  The child writes plain lines only, at most    *)
(* MaxEmit per run; no client connects to the listener and the window stays *)
(* open.                                                                    *)
(***************************************************************************)
Next ==
    \/ \E r \in Runs : ChildExit(r)
    \/ \E r \in Runs, s \in Streams : ReaderRead(r, s, {PlainText}, {FALSE}, MaxEmit)
    \/ \E r \in Runs, s \in Streams : ReaderPush(r, s)
    \/ \E r \in Runs, s \in Streams : ReaderEof(r, s)
    \/ GuiNoClick
    \/ GuiMurder
    \/ GuiRevive
    \/ StopBot
    \/ RestartBot
    \/ Spawn
    \/ RestartMsg
    \/ GuiDrainOne
    \/ GuiDrainDone

Spec == Init /\ [][Next]_vars

(***************************************************************************)
(* The output pump: one run of the child, which writes up to MaxLines lines *)
(* of every kind on its two streams and may exit; the reader threads, the   *)
(* exit watcher, the GUI tick that drains the channel, and the Yap button.  *)
(* No restart is requested.  Nothing here depends on the build target.      *)
(***************************************************************************)
PumpNext ==
    \/ \E r \in Runs : ChildExit(r)
    \/ \E r \in Runs, s \in Streams : ReaderRead(r, s, ChildTexts, BOOLEAN, MaxLines)
    \/ \E r \in Runs, s \in Streams : ReaderPush(r, s)
    \/ \E r \in Runs, s \in Streams : ReaderEof(r, s)
    \/ \E r \in Runs : WatcherExit(r)
    \/ GuiNoClick
    \/ GuiYap
    \/ \E i \in 1..MaxClicks : YapConnect(i)
    \/ \E i \in 1..MaxClicks : YapMsg(i)
    \/ GuiDrainOne
    \/ GuiDrainDone

PumpInit == Init /\ windows = TRUE
PumpSpec == PumpInit /\ [][PumpNext]_vars

(***************************************************************************)
(* Properties.                                                              *)
(***************************************************************************)
Items == output_lines.items
IsChildLine(l) == l.src \in Streams
ReaderLive(r) == \E s \in Streams : rd[r][s].pc \in {"read", "push"}
NumDestroyed(items) == Cardinality({i \in DOMAIN items : items[i].src = "destroyed"})

\* C1: the length of output_lines never exceeds its fixed capacity (200 in
\* the program, Capacity here), whichever writers interleave.
C1_LengthWithinCapacity == Len(Items) <= Capacity

\* C3: stop is idempotent: a stop_bot that runs while no handle and no pid is
\* stored (no process running, or already stopped and none started since)
\* appends no further "destroyed" sentinel line.
C3_StopIdempotent ==
    [][(gpc = "stop_bot" /\ gpc' # "stop_bot" /\ child = None /\ child_pid = None)
        => NumDestroyed(output_lines'.items) <= NumDestroyed(Items)]_vars

\* C4: after restart_bot(msg) on a running process the buffer holds the
\* "destroyed" sentinel, then the message line, then the first captured line
\* of the new run: a captured line of the run a restart started is never in
\* the buffer while that restart's message line is still to be appended, and
\* the message line lies between the restart's sentinel and that line.  (A
\* sentinel appended by the stop_bot of a restart carries in n the run that
\* restart starts; the message line and the captured lines carry it in run.)
C4_RestartOrder ==
    \A d, c \in DOMAIN Items :
        (/\ Items[d].src = "destroyed" /\ Items[d].n > 0
         /\ IsChildLine(Items[c]) /\ Items[c].run = Items[d].n) =>
            /\ d < c
            /\ ~(gpc = "restart_msg" /\ nruns = Items[c].run)
            /\ \A j \in DOMAIN Items :
                (Items[j].src = "msg" /\ Items[j].run = Items[c].run) => (d < j /\ j < c)

\* C9 as claimed: reader threads of two different runs are never live at the
\* same time.
C9_OneRunHasLiveReaders ==
    \A r1, r2 \in Runs : (r1 # r2) => ~(ReaderLive(r1) /\ ReaderLive(r2))

\* C9 as amended: at most one run is the stored current run, and a live
\* reader thread of any other run belongs to a run that stop_bot has already
\* dropped (on Windows after issuing its taskkill); stop_bot and restart_bot
\* do not wait for such stale readers.
C9_StaleReadersBelongToStoppedRuns ==
    /\ child = child_pid
    /\ \A r \in Runs : (ReaderLive(r) /\ r # child_pid) => killReq[r] # "none"

\* witness of C9: the readers of the stopped run and of the run the restart
\* started are live together
C9_Witness ==
    /\ ReaderLive(1) /\ ReaderLive(2)
    /\ child_pid = 2 /\ killReq[1] # "none"

\* C10: when stop_bot returns, the stored handle and the stored pid are both
\* None, whatever the termination command did.
C10_StopClearsHandle ==
    [][(gpc = "stop_bot" /\ gpc' # "stop_bot") => (child' = None /\ child_pid' = None)]_vars

\* witness of C10: stop_bot has returned after a taskkill that did not
\* terminate the process, which still runs, and nothing is stored
C10_Witness ==
    /\ gpc = "drain"
    /\ child = None /\ child_pid = None
    /\ killReq[1] = "failed" /\ proc[1] = "running"

\* the denylisted substring occurs in the text
HasNoise(text) == \E i \in DOMAIN text : text[i] = "Generate command triggered manually"

\* C8: a line of the child that contains the denylisted substring is never
\* handed to the logger, never pushed into the output buffer and never sent
\* on the notification channel, on either stream.
C8_NoiseNeverForwarded ==
    /\ \A i \in DOMAIN Items : ~HasNoise(Items[i].text)
    /\ \A i \in DOMAIN chan : ~HasNoise(chan[i].text)
    /\ \A t \in LogThreads : \A i \in DOMAIN logq[t] : ~HasNoise(logq[t][i].text)
    /\ \A r \in Runs, s \in Streams : ~HasNoise(rd[r][s].line.text)

\* witness of C8: a reader has read and dropped a denylisted line, and the
\* plain line it read next on the same stream is in the buffer
C8_Witness ==
    \E k \in skipped, i \in DOMAIN Items :
        /\ k.why = "noise" /\ IsChildLine(Items[i])
        /\ Items[i].src = k.stream /\ Items[i].run = k.run /\ Items[i].n = k.n + 1

(***************************************************************************)
(* RingSpec: push_log_line alone, on an empty buffer of any capacity from   *)
(* 1 to Capacity, called with any sequence of at most MaxPush lines drawn   *)
(* from RingLines (lines may repeat).  pushed records the arguments.        *)
(***************************************************************************)
RingLines == {Line("stdout", 1, k, PlainText) : k \in 1..(Capacity + 1)}

RingInit ==
    /\ \E c \in 1..Capacity : output_lines = with_capacity(c)
    /\ InitFields
    /\ pushed = <<>>
    /\ LoggerRunning

RingPush(line) ==
    /\ Len(pushed) < MaxPush
    /\ output_lines' = push_log_line(output_lines, line)
    /\ pushed' = Append(pushed, line)
    /\ UNCHANGED <<windows, chan, rxRun, child, child_pid, nruns, killReq,
                   procVars, logq, guiVars, yap, ipcVars, logVars, lockVars>>

RingNext == \E line \in RingLines : RingPush(line)

RingSpec == RingInit /\ [][RingNext]_vars

LastN(seq, n) == SubSeq(seq, Len(seq) - n + 1, Len(seq))

\* C2: after N calls of push_log_line on a buffer of capacity C that started
\* empty, the buffer has length min(N, C) and holds exactly the last
\* min(N, C) pushed lines in push order, and its capacity is still C.
C2_RingHoldsLastPushed ==
    LET n == Min(Len(pushed), output_lines.cap)
    IN  /\ output_lines.cap \in 1..Capacity
        /\ Len(Items) = n
        /\ Items = LastN(pushed, n)

\* witness of C2: capacity + 1 distinct lines were pushed on a buffer of the
\* largest capacity; the first is gone and the others are there in order
C2_Witness ==
    /\ output_lines.cap = Capacity
    /\ Len(pushed) = Capacity + 1
    /\ \A i, j \in DOMAIN pushed : i # j => pushed[i] # pushed[j]
    /\ \A i \in DOMAIN Items : Items[i] # pushed[1]
    /\ Items = Tail(pushed)

(***************************************************************************)
(* IpcSpec: the listener thread, its clients and the GUI tick that reads    *)
(* the flag.  The child writes nothing and no button is pressed.  The       *)
(* listener thread and the GUI thread run whenever they can (weak           *)
(* fairness); nothing is assumed of the clients.                            *)
(***************************************************************************)
IpcNext ==
    \/ ClientConnect(Payloads)
    \/ \E i \in 1..MaxConns : ClientSend(i)
    \/ LsnAccept
    \/ LsnRead
    \/ GuiNoClick
    \/ GuiDrainDone
    \/ RestartBot
    \/ StopBot
    \/ Spawn
    \/ RestartMsg
    \/ GuiIpcStore

IpcSpec ==
    /\ Init
    /\ [][IpcNext]_vars
    /\ WF_vars(LsnAccept)
    /\ WF_vars(LsnRead)
    /\ WF_vars(GuiNoClick \/ GuiDrainDone \/ RestartBot \/ StopBot \/ Spawn
                  \/ RestartMsg \/ GuiIpcStore)

\* connection i exists and its client has written exactly "RESTART_BOT"
SentRestart(i) ==
    i \in DOMAIN conns /\ conns[i].st = "sent" /\ conns[i].payload = RESTART_BOT

\* the listener stored true in the flag on reading connection i
FlagSetBy(i) == i \in DOMAIN conns /\ conns[i].res = "set"

\* C5: whenever a client has connected and sent exactly "RESTART_BOT", the
\* listener eventually sets the flag for that connection, whatever the
\* other clients do.
C5_RestartMsgSetsFlag == \A i \in 1..MaxConns : SentRestart(i) ~> FlagSetBy(i)

\* the bytes the listener receives from connection c
Received(c) == SubSeq(c.payload, 1, Min(BufSize, Len(c.payload)))

\* bytes that decode and trim to "RESTART_BOT": the eleven letters between
\* whitespace, stated without the operators of the listener
IsPaddedRestart(bytes) ==
    \E a \in 0..Len(bytes) :
        /\ a + Len(RESTART_BOT) <= Len(bytes)
        /\ SubSeq(bytes, a + 1, a + Len(RESTART_BOT)) = RESTART_BOT
        /\ \A k \in 1..Len(bytes) :
              (k <= a \/ k > a + Len(RESTART_BOT)) => bytes[k] \in {" ", "\n", "\r", "\t"}

\* the listener finishes with its current connection in this step
LsnHandles == lsn.pc = "read" /\ lsn'.pc = "accept"

\* C6: the flag goes from false to true only in a step in which the
\* listener handles a connection whose received bytes, decoded and trimmed,
\* are "RESTART_BOT"; handling a connection with any other payload, or
\* whose read fails, leaves the flag as it is; a handled connection is
\* dropped and the listener never goes back to it.
C6_FlagSetOnlyByRestartMsg ==
    [][ LET c == conns[lsn.cur]
            match == c.st = "sent" /\ IsPaddedRestart(Received(c))
        IN  /\ (~flag /\ flag') => (LsnHandles /\ match)
            /\ (LsnHandles /\ ~match) =>
                  (flag' = flag /\ conns'[lsn.cur].res = "ignored")
            /\ LsnHandles => lsn'.cur = lsn.cur
            /\ lsn'.cur >= lsn.cur
            /\ \A i \in DOMAIN conns :
                  conns[i].res # "waiting" => conns'[i].res = conns[i].res
      ]_vars

\* witness of C6: a connection that sent "restart_bot" was dropped with the
\* flag still false, and a later one that sent "RESTART_BOT" set it
C6_Witness ==
    /\ Len(conns) = 2
    /\ conns[1].payload = <<"r", "e", "s", "t", "a", "r", "t", "_", "b", "o", "t">>
    /\ conns[1].st = "sent" /\ conns[1].res = "ignored"
    /\ conns[2].payload = RESTART_BOT /\ conns[2].res = "set"
    /\ flag

(***************************************************************************)
(* The logger, log_util.rs:44-78.                                           *)
(***************************************************************************)
appState == <<windows, appVars, procVars, logq, guiVars, yap, ipcVars, pushed, lockVars>>

\* log_util.rs:47-54: Logger::init rotates the directory unless
\* YAPBOT_LOG_PATH gives the path
init_rotates_always(env) == TRUE
init_rotates(env) == ~env

\* Logger::init on the calling thread, log_util.rs:45-58: without
\* YAPBOT_LOG_PATH the directory is rotated before the session file is named
LoggerInit ==
    /\ lg.pc = "init"
    /\ files' = IF init_rotates(lg.env) THEN rotate_logs(files) ELSE files
    /\ lg' = [lg EXCEPT !.pc = "open", !.path = lg.pick]
    /\ UNCHANGED appState

\* the background thread starts, log_util.rs:60-63: it opens the session
\* file, creating it if need be, and rotates; if the file cannot be opened
\* the thread panics and the logger is dead
LoggerOpen ==
    /\ lg.pc = "open"
    /\ \E ok \in BOOLEAN :
        IF ok
        THEN /\ files' = rotate_logs(open_append(files, lg.path, lg.clock))
             /\ lg' = [lg EXCEPT !.pc = "run", !.clock = @ + 1]
        ELSE /\ lg' = [lg EXCEPT !.pc = "dead"]
             /\ UNCHANGED files
    /\ UNCHANGED appState

\* log_util.rs:64-69: the thread receives the next message of the channel,
\* a line, appends it to the session file and rotates
LoggerWrite ==
    /\ lg.pc = "run"
    /\ lg.writes < Queued(LogThreads)
    /\ lg.sd = 0 \/ lg.writes + 1 < lg.sd
    /\ files' = rotate_logs(files)
    /\ lg' = [lg EXCEPT !.writes = @ + 1]
    /\ UNCHANGED appState

\* another program creates a .log file in the directory
OtherLogCreated ==
    /\ lg.others < MaxOther
    /\ files' = files \cup {LogFile(-(lg.others + 1), lg.clock, FALSE)}
    /\ lg' = [lg EXCEPT !.others = @ + 1, !.clock = @ + 1]
    /\ UNCHANGED appState

LogInit == InitApp /\ pushed = <<>> /\ LoggerStarting

LogNext == LoggerInit \/ LoggerOpen \/ LoggerWrite \/ OtherLogCreated

LogSpec == LogInit /\ [][LogNext]_vars

\* the k oldest files of a directory
Oldest(dir, k) == {f \in dir : Cardinality({g \in dir : g.created < f.created}) < k}
\* the k newest files of a directory
Newest(dir, k) == {f \in dir : Cardinality({g \in dir : g.created > f.created}) < k}

\* Logger::init is over, its thread has started, and nothing else has
\* happened to the directory: MAX_LOG_FILES + 2 files existed, all of them
\* deletable, and YAPBOT_LOG_PATH is not set
InitDoneOnTwoExtra ==
    /\ lg.pc = "run" /\ lg.writes = 0 /\ lg.others = 0
    /\ ~lg.env
    /\ Cardinality(lg.pre) = MAX_LOG_FILES + 2
    /\ \A f \in lg.pre : ~f.locked

C11_SpawnFailureLeavesNothing ==
    /\ \A r \in Runs : proc[r] = "failed" =>
          /\ child # r /\ child_pid # r
          /\ watcher[r] = "none"
          /\ \A s \in Streams : rd[r][s].pc = "none" /\ emitted[r][s] = 0
    /\ (gpc = "restart_msg" /\ proc[nruns] = "failed") =>
          (child = None /\ child_pid = None)
    /\ nruns <= 1 + clicks

\* witness of C11: the spawn of a restart on a running bot failed and the
\* GUI thread is back in its tick
C11_Witness ==
    /\ nruns = 2 /\ proc[1] # "failed" /\ proc[2] = "failed"
    /\ gpc \in {"drain", "toolbar"}
    /\ child = None /\ child_pid = None

(***************************************************************************)
(* Order of the captured lines.                                             *)
(***************************************************************************)
\* C12: for each stream of one run, the lines read from it are in the output
\* buffer and in the log in the order in which the child emitted them: no
\* entry of the buffer holds a line of the stream that was emitted before
\* the line of an earlier entry, and likewise for what the stream's reader
\* handed to the logger.
C12_StreamOrderKept ==
    \A r \in Runs, s \in Streams :
        /\ \A i, j \in DOMAIN Items :
              (/\ i < j
               /\ Items[i].src = s /\ Items[i].run = r
               /\ Items[j].src = s /\ Items[j].run = r) => Items[i].n <= Items[j].n
        /\ \A i, j \in DOMAIN logq[ReaderThread(r, s)] :
              i < j => logq[ReaderThread(r, s)][i].n < logq[ReaderThread(r, s)][j].n

(***************************************************************************)
(* restart_bot against stop_bot followed by a start.                        *)
(***************************************************************************)
\* C13: from every state, process running or not, restart_bot(msg) acts on
\* the buffer like stop_bot(), a start and the append of msg: when it
\* appends msg, the "destroyed" line that stop_bot() appends for this
\* restart is already in the buffer, and the stored handle and pid are
\* those of the start.
C13_RestartIsStopStartMsg ==
    [][(gpc = "restart_msg" /\ gpc' # "restart_msg") =>
         /\ \E d \in DOMAIN Items : Items[d].src = "destroyed" /\ Items[d].n = nruns
         /\ output_lines'.items = Append(Items, Line("msg", nruns, 0, ReviveText))
         /\ child' = child /\ child_pid' = child_pid
         /\ child = child_pid /\ child \in {None, nruns}]_vars

(***************************************************************************)
(* The GUI tick and the restart flag.                                       *)
(***************************************************************************)
\* C14: every GUI tick reads the flag after draining the channel.  If it is
\* true the tick makes one restart (one call of restart_bot, one spawn) and
\* then stores false; if it is false the tick makes no restart.  No other
\* step of the GUI thread starts a restart, spawns or clears the flag.
C14_TickRestartsOncePerFlag ==
    [][ /\ (gpc = "drain" /\ gpc' # "drain") =>
              IF flag THEN gpc' = "restart_bot" /\ restartRet' = "ipc_store"
                      ELSE gpc' = "toolbar" /\ nruns' = nruns
        /\ (gpc # "restart_bot" /\ gpc' = "restart_bot") => (gpc = "drain" /\ flag)
        /\ (gpc # "spawn" /\ gpc' = "spawn") =>
              (gpc = "restart_bot" \/ (gpc = "stop_bot" /\ stopRet = "spawn"))
        /\ nruns' # nruns => (nruns' = nruns + 1 /\ gpc = "spawn" /\ gpc' = "restart_msg")
        /\ (gpc = "restart_msg" /\ gpc' # "restart_msg") => gpc' = "ipc_store"
        /\ (gpc = "ipc_store" /\ gpc' # "ipc_store") =>
              (flag' = FALSE /\ gpc' = "toolbar" /\ nruns' = nruns)
        /\ (flag /\ ~flag') => gpc = "ipc_store"
      ]_vars

\* witness of C14: a tick found the flag set by a client, restarted the bot
\* once and cleared the flag
C14_Witness ==
    /\ \E i \in DOMAIN conns : conns[i].res = "set"
    /\ nruns = 2 /\ gpc = "toolbar" /\ ~flag

(***************************************************************************)
(* The exit watcher.                                                        *)
(***************************************************************************)
\* C15: the exit watcher hands its "exited with status" line to the logger
\* only: once it has seen the exit the line is the one thing it has logged,
\* and no entry of the output buffer and no message of the notification
\* channel carries it.
C15_ExitLineLoggedOnly ==
    /\ \A r \in Runs :
          logq[WatcherThread(r)] =
              IF watcher[r] = "done" THEN <<Line("log", r, 0, ExitedText)>> ELSE <<>>
    /\ \A i \in DOMAIN Items : Items[i].text # ExitedText /\ Items[i].src # "watcher"
    /\ \A i \in DOMAIN chan : chan[i].text # ExitedText /\ chan[i].src # "watcher"

\* witness of C15: the watcher has logged the exit, and the GUI tick has
\* since drained the channel into a buffer that holds captured lines
C15_Witness ==
    /\ watcher[1] = "done"
    /\ Len(logq[WatcherThread(1)]) = 1
    /\ \E i \in DOMAIN Items : IsChildLine(Items[i])
    /\ gpc = "toolbar" /\ chan = <<>>

(***************************************************************************)
(* A failed start as a line.                                                *)
(***************************************************************************)
\* C16: when the supervised process fails to start, a line describing the
\* failed start is appended to the output buffer and handed to the logger
\* (by the time the call has returned to the GUI thread), and the GUI thread
\* keeps running.
C16_StartFailureIsALine ==
    \A r \in Runs :
        (proc[r] = "failed" /\ ~(r = nruns /\ gpc = "spawn")) =>
            /\ \E i \in DOMAIN Items :
                  Items[i].src \notin {"destroyed", "msg"} /\ Items[i].run = r
            /\ \E t \in LogThreads : \E i \in DOMAIN logq[t] :
                  logq[t][i].run = r /\ logq[t][i] # RunLog
            /\ Running

(***************************************************************************)
(* One entry per emitted line.                                              *)
(***************************************************************************)
\* C17: a line the child emitted once occupies at most one entry of the
\* output buffer: the reader's own push and the GUI tick's drain of the
\* channel never both insert it.
C17_OneEntryPerEmittedLine ==
    \A i, j \in DOMAIN Items :
        (IsChildLine(Items[i]) /\ Items[i] = Items[j]) => i = j

(***************************************************************************)
(* Restart requests and the store of false.                                 *)
(***************************************************************************)
\* C18: no restart request is lost: the flag is never cleared while a
\* message that made the listener set it has had no restart_bot call begin
\* after it, so that for every such message a restart begins after the set,
\* also when the message arrives between the tick's load of the flag and its
\* store of false.
C18_NoRestartRequestLost ==
    [][(flag /\ ~flag') =>
         \A i \in DOMAIN conns : conns[i].res = "set" => conns[i].served]_vars

(***************************************************************************)
(* The kill of the old process and the spawn of the new one.                *)
(***************************************************************************)
\* C19: within a restart, the new process is spawned only after the
\* termination request for the old one was submitted: at the spawn, every
\* process that was started and has not exited has had its kill issued
\* (whatever the kill achieved), while its reader and watcher threads may
\* still be running.
C19_KillSubmittedBeforeSpawn ==
    [][(gpc = "spawn" /\ gpc' # "spawn") =>
         \A r \in Runs : proc[r] = "running" => killReq[r] \in {"ok", "failed"}]_vars

(***************************************************************************)
(* UnixSpec: stop_bot of the single-file program, TwitchYapBot.rs, built    *)
(* for unix.  Its exit watcher locks the Mutex<Child> and keeps the guard   *)
(* for the whole of wait() (TwitchYapBot.rs:193); its stop_bot locks the    *)
(* same mutex to kill (216-218).  The child may or may not exit on its own; *)
(* the GUI thread and the watcher run whenever they can.                    *)
(***************************************************************************)
\* TwitchYapBot.rs:193, child_arc_clone.lock(): the watcher thread has
\* started and takes the lock
LegacyWatcherLock(r) ==
    /\ Running
    /\ watcher[r] = "waiting"
    /\ watcher' = [watcher EXCEPT ![r] = "locked"]
    /\ UNCHANGED <<windows, appVars, proc, emitted, rd, skipped, logq, guiVars, yap,
                   ipcVars, pushed, logVars, lockVars>>

\* TwitchYapBot.rs:193-196: wait() returns, the guard is dropped; the
\* status is printed only
LegacyWatcherExit(r) ==
    /\ Running
    /\ watcher[r] = "locked"
    /\ proc[r] = "exited"
    /\ watcher' = [watcher EXCEPT ![r] = "done"]
    /\ UNCHANGED <<windows, appVars, proc, emitted, rd, skipped, logq, guiVars, yap,
                   ipcVars, pushed, logVars, lockVars>>

\* TwitchYapBot.rs:216-217: child_arc.lock() returns once no other thread
\* holds the mutex
child_lock_free(c) == IF c = None THEN TRUE ELSE watcher[c] # "locked"

\* stop_bot, TwitchYapBot.rs:202-227, cfg(unix): lock, kill, forget, append
LegacyStopBot ==
    /\ gpc = "stop_bot"
    /\ ~windows
    /\ child_lock_free(child)
    /\ killReq' = [r \in Runs |-> IF r = child THEN "ok" ELSE killReq[r]]
    /\ proc' = [r \in Runs |-> IF r = child /\ proc[r] = "running" THEN "exited" ELSE proc[r]]
    /\ child' = None
    /\ child_pid' = None
    /\ output_lines' = push_back(output_lines,
            Line("destroyed", child_pid, IF stopRet = "spawn" THEN nruns + 1 ELSE 0,
                 DestroyedText))
    /\ gpc' = stopRet
    /\ UNCHANGED <<windows, chan, rxRun, nruns, emitted, rd, watcher, skipped, logq,
                   stopRet, restartRet, clicks, yap, ipcVars, pushed, logVars, lockVars>>

UnixInit == Init /\ windows = FALSE

UnixGui ==
    \/ GuiNoClick
    \/ GuiMurder
    \/ GuiRevive
    \/ LegacyStopBot
    \/ RestartBot
    \/ Spawn
    \/ RestartMsg
    \/ GuiDrainDone

UnixNext ==
    \/ \E r \in Runs : ChildExit(r)
    \/ \E r \in Runs : LegacyWatcherLock(r)
    \/ \E r \in Runs : LegacyWatcherExit(r)
    \/ UnixGui

UnixSpec ==
    /\ UnixInit
    /\ [][UnixNext]_vars
    /\ WF_vars(UnixGui)
    /\ \A r \in Runs : WF_vars(LegacyWatcherLock(r)) /\ WF_vars(LegacyWatcherExit(r))

\* C20: on a platform other than Windows, stop called while a child is
\* running sends the kill to the owned handle and returns, whether or not
\* the child would ever exit on its own and however the exit watcher that
\* waits on the same handle is scheduled: a stop_bot that has begun
\* eventually returns.
C20_StopReturns == (gpc = "stop_bot") ~> (gpc # "stop_bot")

(***************************************************************************)
(* The current process after its exit.                                      *)
(***************************************************************************)
\* C21: a process stops being the current one once its natural exit has
\* been observed: in no state has the exit watcher of a run seen the exit
\* while app.child or app.child_pid still holds that run.
C21_ExitedRunNotCurrent ==
    \A r \in Runs : watcher[r] = "done" => (child # r /\ child_pid # r)

(***************************************************************************)
(* Closing the window, gui.rs:235-239, and the end of the logger's thread.  *)
(* The thread is detached (log_util.rs:60, the JoinHandle is dropped);      *)
(* nothing waits for it.                                                    *)
(***************************************************************************)
\* log_util.rs:70-73: the next message of the channel is Shutdown; the
\* thread flushes and leaves its loop
LoggerShutdown ==
    /\ lg.pc = "run"
    /\ lg.sd # 0 /\ lg.writes + 1 = lg.sd
    /\ lg' = [lg EXCEPT !.pc = "exit"]
    /\ UNCHANGED <<files, appState>>

\* main returns after run_native (main.rs:69-77): the process ends, and with
\* it the logger's thread wherever it is
MainReturns ==
    /\ gpc = "exited"
    /\ lg.pc = "run"
    /\ lg' = [lg EXCEPT !.pc = "killed"]
    /\ UNCHANGED <<files, appState>>

ShutdownGui == GuiNoClick \/ GuiDrainOne \/ GuiDrainDone \/ GuiOnExit \/ StopBot \/ GuiExit

ShutdownLogger == LoggerWrite \/ LoggerShutdown

ShutdownNext ==
    \/ \E r \in Runs : ChildExit(r)
    \/ \E r \in Runs, s \in Streams : ReaderRead(r, s, {PlainText}, {FALSE}, MaxEmit)
    \/ \E r \in Runs, s \in Streams : ReaderPush(r, s)
    \/ \E r \in Runs, s \in Streams : ReaderEof(r, s)
    \/ \E r \in Runs : WatcherExit(r)
    \/ ShutdownGui
    \/ ShutdownLogger
    \/ MainReturns

ShutdownSpec ==
    Init /\ [][ShutdownNext]_vars /\ WF_vars(ShutdownGui) /\ WF_vars(ShutdownLogger)

\* C22: once shutdown_logger has been called, the logger's thread eventually
\* leaves its loop, having appended every line that was enqueued before the
\* Shutdown message (and none enqueued after it).
C22_ShutdownDrainsLog ==
    (lg.sd # 0) ~> (lg.pc = "exit" /\ lg.writes = lg.sd - 1)

(***************************************************************************)
(* Rotation and the session file.                                           *)
(***************************************************************************)
\* the file the logger's thread has open for appending is in the directory
SessionFileKept == \E f \in files : f.name = lg.path

\* C23: a rotation never deletes the log file that the logger has open for
\* appending, whether its path was generated from the launch time or given
\* by YAPBOT_LOG_PATH, and however many other .log files are in the
\* directory: while the thread runs, its file exists.
C23_RotationKeepsOpenFile == lg.pc = "run" => SessionFileKept

(***************************************************************************)
(* The retention count.                                                     *)
(***************************************************************************)
\* a step of the logger's thread that ends with a rotation: the start of the
\* thread (log_util.rs:62-63) or an appended line (67-68)
RotationDone == lg'.pc = "run" /\ (lg.pc = "open" \/ lg'.writes # lg.writes)

\* C24: after the logger's start and after every appended line at most
\* MAX_LOG_FILES .log files are in the directory, and the files a rotation
\* deleted are the oldest by creation time.
C24_RetentionBound ==
    [][RotationDone =>
        /\ Cardinality(files') <= MAX_LOG_FILES
        /\ files \ files' = Oldest(files, Cardinality(files \ files'))]_vars

(***************************************************************************)
(* A silent client of the restart listener.                                 *)
(***************************************************************************)
\* connection i is open and its client has neither sent nor closed
Silent(i) == i \in DOMAIN conns /\ conns[i].st = "open"

\* C25: a client that has connected and neither sends nor closes does not
\* keep the listener from later connections: a client that connects after
\* it and sends "RESTART_BOT" still gets the flag set.
C25_SilentClientDoesNotBlock ==
    \A i \in 1..MaxConns, j \in 1..MaxConns :
        (i < j /\ Silent(i) /\ SentRestart(j)) ~> FlagSetBy(j)

(***************************************************************************)
(* What stop_bot and restart_bot leave in place.                            *)
(***************************************************************************)
IsPrefix(a, b) == Len(a) <= Len(b) /\ SubSeq(b, 1, Len(a)) = a

\* a step of the GUI thread inside stop_bot or restart_bot
StopOrRestartStep ==
    gpc \in {"stop_bot", "restart_bot", "spawn", "restart_msg"} /\ gpc' # gpc

\* C26: stop_bot and restart_bot leave the output buffer and the logger in
\* place: their steps remove no line of the buffer (they only append), the
\* readers of every run, old or new, append to that same buffer, and the
\* logger and the files of the log directory are as before.
C26_StopRestartKeepBufferAndLogger ==
    [][/\ StopOrRestartStep => (IsPrefix(Items, Items') /\ files' = files /\ lg' = lg)
       /\ \A r \in Runs, s \in Streams :
             (rd[r][s].pc = "push" /\ rd'[r][s].pc # "push") =>
                 Items' = Append(Items, rd[r][s].line)]_vars

\* after a restart, a line of the first run is still in the buffer and a
\* line of the second run has been appended behind it
C26_Witness ==
    /\ nruns = 2 /\ gpc = "toolbar"
    /\ \E i, k \in DOMAIN Items :
        /\ i < k
        /\ IsChildLine(Items[i]) /\ Items[i].run = 1
        /\ IsChildLine(Items[k]) /\ Items[k].run = 2

(***************************************************************************)
(* The threads of a run on Windows: restarts from the Revive button, the    *)
(* exit watchers, every thread of a run being scheduled again and again.    *)
(***************************************************************************)
ReaderStep(r, s) ==
    ReaderRead(r, s, {PlainText}, {FALSE}, MaxEmit) \/ ReaderPush(r, s) \/ ReaderEof(r, s)

ThreadsNext ==
    \/ \E r \in Runs : ChildExit(r)
    \/ \E r \in Runs, s \in Streams : ReaderStep(r, s)
    \/ \E r \in Runs : WatcherExit(r)
    \/ GuiNoClick
    \/ GuiRevive
    \/ StopBot
    \/ RestartBot
    \/ Spawn
    \/ RestartMsg
    \/ GuiDrainOne
    \/ GuiDrainDone

ThreadsInit == Init /\ windows = TRUE

ThreadsSpec ==
    /\ ThreadsInit /\ [][ThreadsNext]_vars
    /\ \A r \in Runs, s \in Streams : WF_vars(ReaderStep(r, s))
    /\ \A r \in Runs : WF_vars(WatcherExit(r))

\* the threads of run r exist: a reader per stream and the watcher
HasThreads(r) == (\A s \in Streams : rd[r][s].pc # "none") /\ watcher[r] # "none"
\* run r has no thread at all
HasNoThread(r) == (\A s \in Streams : rd[r][s].pc = "none") /\ watcher[r] = "none"
\* the threads of run r have all ended
ThreadsEnded(r) == (\A s \in Streams : rd[r][s].pc = "done") /\ watcher[r] = "done"

\* C27: every successful start has its two readers (stdout, stderr) and its
\* exit watcher, a start that failed has none, and once the process of a run
\* has exited or been killed its three threads eventually end.
C27_ThreadsOfARunEnd ==
    /\ [](\A r \in Runs :
            /\ proc[r] \in {"running", "exited"} => HasThreads(r)
            /\ proc[r] \in {"unused", "failed"} => HasNoThread(r))
    /\ \A r \in Runs : (proc[r] = "exited") ~> ThreadsEnded(r)

\* the first run was killed by taskkill on a restart and its three threads
\* have ended, while the second run has its own three
C27_Witness ==
    /\ killReq[1] = "ok" /\ proc[1] = "exited" /\ ThreadsEnded(1)
    /\ proc[2] = "running" /\ HasThreads(2)

(***************************************************************************)
(* The Mutex of the output buffer, step by step: a thread takes the lock,   *)
(* works on the buffer, and the guard is dropped.  Readers push             *)
(* (bot_manager.rs:143, 161); the GUI thread, in one tick, copies the       *)
(* buffer for rendering (output.rs:128-131), iterates over the copy, then   *)
(* drains the channel through push_log_line (gui.rs:205-206, 243-249).      *)
(***************************************************************************)
\* Mutex::lock returns once no thread holds the mutex
can_lock_always(m) == TRUE
can_lock(m) == m = Free

\* out_lines.lock().unwrap() of a reader
ReaderLock(r, s) ==
    /\ rd[r][s].pc = "push"
    /\ can_lock(mutex)
    /\ mutex' = ReaderThread(r, s)
    /\ rd' = [rd EXCEPT ![r][s].pc = "locked"]
    /\ UNCHANGED <<windows, appVars, proc, emitted, watcher, skipped, logq, guiVars, yap,
                   ipcVars, pushed, logVars, snap>>

\* .push_back(line); the guard is a temporary, dropped with the statement
ReaderPushLocked(r, s) ==
    /\ rd[r][s].pc = "locked"
    /\ output_lines' = push_back(output_lines, rd[r][s].line)
    /\ rd' = [rd EXCEPT ![r][s] = ReadyReader]
    /\ mutex' = Free
    /\ UNCHANGED <<windows, chan, rxRun, child, child_pid, nruns, killReq, proc,
                   emitted, watcher, skipped, logq, guiVars, yap, ipcVars, pushed, logVars,
                   snap>>

\* output.rs:129, let guard = app.output_lines.lock().unwrap()
RenderLock ==
    /\ gpc = "toolbar"
    /\ can_lock(mutex)
    /\ mutex' = GuiThread
    /\ gpc' = "render_locked"
    /\ UNCHANGED <<windows, appVars, procVars, logq, stopRet, restartRet, clicks, yap,
                   ipcVars, pushed, logVars, snap>>

\* output.rs:130-131, guard.clone() is the value of the block and the guard
\* is dropped at its end
RenderClone ==
    /\ gpc = "render_locked"
    /\ snap' = [pc |-> "copied", lines |-> output_lines.items]
    /\ mutex' = Free
    /\ gpc' = "render_iter"
    /\ UNCHANGED <<windows, appVars, procVars, logq, stopRet, restartRet, clicks, yap,
                   ipcVars, pushed, logVars>>

\* output.rs:132 onwards: the lines of the copy are laid out
RenderIterate ==
    /\ gpc = "render_iter"
    /\ snap' = [snap EXCEPT !.pc = "shown"]
    /\ gpc' = "drain"
    /\ UNCHANGED <<windows, appVars, procVars, logq, stopRet, restartRet, clicks, yap,
                   ipcVars, pushed, logVars, mutex>>

\* push_log_line, gui.rs:244: buffer.lock().unwrap()
DrainLock ==
    /\ gpc = "drain"
    /\ chan # <<>>
    /\ can_lock(mutex)
    /\ mutex' = GuiThread
    /\ gpc' = "drain_locked"
    /\ UNCHANGED <<windows, appVars, procVars, logq, stopRet, restartRet, clicks, yap,
                   ipcVars, pushed, logVars, snap>>

\* push_log_line, gui.rs:245-249: pop_front if full, push_back, and the guard
\* is dropped on return
DrainPush ==
    /\ gpc = "drain_locked"
    /\ output_lines' = push_log_line(output_lines, Head(chan))
    /\ chan' = Tail(chan)
    /\ mutex' = Free
    /\ gpc' = "drain"
    /\ UNCHANGED <<windows, rxRun, child, child_pid, nruns, killReq, procVars, logq,
                   stopRet, restartRet, clicks, yap, ipcVars, pushed, logVars, snap>>

MutexNext ==
    \/ \E r \in Runs : ChildExit(r)
    \/ \E r \in Runs, s \in Streams : ReaderRead(r, s, {PlainText}, {FALSE}, MaxLines)
    \/ \E r \in Runs, s \in Streams : ReaderLock(r, s)
    \/ \E r \in Runs, s \in Streams : ReaderPushLocked(r, s)
    \/ \E r \in Runs, s \in Streams : ReaderEof(r, s)
    \/ RenderLock
    \/ RenderClone
    \/ RenderIterate
    \/ DrainLock
    \/ DrainPush
    \/ GuiDrainDone

MutexSpec == Init /\ [][MutexNext]_vars

\* the thread that takes the step, for the steps that work on the buffer
Mutator ==
    IF gpc \in {"render_locked", "drain_locked"} /\ gpc' # gpc THEN GuiThread
    ELSE IF \E r \in Runs, s \in Streams : rd[r][s].pc = "locked" /\ rd'[r][s].pc # "locked"
    THEN CHOOSE t \in {ReaderThread(r, s) : r \in Runs, s \in Streams} :
            rd[t[2]][t[3]].pc = "locked" /\ rd'[t[2]][t[3]].pc # "locked"
    ELSE Free

\* C28: every change of the output buffer is made by the thread that holds
\* its mutex; the copy taken for rendering is made under the mutex and is
\* the content of the buffer at that instant; the mutex is released before
\* the copy is iterated, and the copy stays as it is while the buffer
\* changes.
C28_BufferUnderMutex ==
    [][/\ output_lines' # output_lines => (Mutator # Free /\ mutex = Mutator)
       /\ (snap'.pc = "copied" /\ snap.pc # "copied") =>
             (mutex = GuiThread /\ Mutator = GuiThread /\ snap'.lines = Items)
       /\ gpc' = "render_iter" => mutex' # GuiThread
       /\ gpc = "render_iter" => (mutex # GuiThread /\ snap'.lines = snap.lines)]_vars

\* the copy is being iterated while a reader has pushed a line behind it
C28_Witness ==
    /\ gpc = "render_iter"
    /\ snap.lines # <<>>
    /\ Len(Items) > Len(snap.lines)

(***************************************************************************)
(* The logger in use: Logger::init runs inside the first log_message (the   *)
(* Lazy of log_util.rs:14), on the thread that calls it; once it has        *)
(* returned the readers of the first run hand their lines to log_message    *)
(* while the logger's thread works.                                         *)
(***************************************************************************)
LoggerReady == lg.pc # "init"

LogUseNext ==
    \/ LogNext
    \/ LoggerReady /\ \E r \in Runs : ChildExit(r)
    \/ LoggerReady /\ \E r \in Runs, s \in Streams :
                        ReaderRead(r, s, {PlainText}, {FALSE}, MaxEmit)
    \/ LoggerReady /\ \E r \in Runs, s \in Streams : ReaderPush(r, s)
    \/ LoggerReady /\ \E r \in Runs, s \in Streams : ReaderEof(r, s)

LogUseSpec == LogInit /\ [][LogUseNext]_vars

\* a step that removes .log files
Deletes == files \ files' # {}
\* the step is taken by the logger's thread
ByLoggerThread == lg.pc \in {"open", "run"}

\* C29 as claimed: the log directory is rotated only by the logger's
\* thread, never by a thread that calls log_message.
C29_RotatedOnlyByLoggerThread == [][Deletes => ByLoggerThread]_vars

\* C29, amended: a log_message that finds the logger initialised only
\* enqueues (it changes neither the directory nor the logger); lines are
\* appended and the session file is created by the logger's thread alone;
\* the directory is rotated by the logger's thread, and once by the thread
\* whose log_message initialises the logger, when YAPBOT_LOG_PATH is not
\* set.
C29_ProducersOnlyInitialise ==
    [][/\ logq' # logq => (files' = files /\ lg' = lg)
       /\ lg'.writes # lg.writes => ByLoggerThread
       /\ (\E f \in files' \ files : f.name = lg.path) => ByLoggerThread
       /\ Deletes => (ByLoggerThread \/ (lg.pc = "init" /\ ~lg.env))]_vars

\* Logger::init has deleted files on the calling thread
C29_Witness == lg.pc = "open" /\ ~lg.env /\ lg.pre \ files # {}

(***************************************************************************)
(* Read errors of the child's streams.                                      *)
(***************************************************************************)
\* line n of stream s of run r is an entry of seq
Holds(seq, r, s, n) ==
    \E i \in DOMAIN seq : seq[i].run = r /\ seq[i].n = n /\ seq[i].src \in {s, "log"}

\* line n of stream s of run r was dropped by the reader
Skipped(r, s, n) == \E k \in skipped : k.run = r /\ k.stream = s /\ k.n = n

\* C30: a line whose read yields an error is skipped alone: it reaches
\* neither the logger nor the buffer nor the channel; the reader goes on (it
\* ends only at end of file); and every line it reads that is not skipped,
\* the ones after an error included, is handed to the logger and then sent
\* and pushed.
C30_ErrorLineSkippedAlone ==
    \A r \in Runs, s \in Streams :
        /\ \A k \in skipped :
              (k.run = r /\ k.stream = s /\ k.why = "err") =>
                  /\ ~Holds(logq[ReaderThread(r, s)], r, s, k.n)
                  /\ ~Holds(Items, r, s, k.n)
                  /\ ~Holds(chan, r, s, k.n)
                  /\ ~(rd[r][s].pc = "push" /\ rd[r][s].line.n = k.n)
        /\ rd[r][s].pc = "done" => proc[r] = "exited"
        /\ \A n \in 1..emitted[r][s] :
              ~Skipped(r, s, n) =>
                  /\ Holds(logq[ReaderThread(r, s)], r, s, n)
                  /\ \/ rd[r][s].pc = "push" /\ rd[r][s].line.n = n
                     \/ Holds(Items, r, s, n)
                     \/ Len(Items) >= Capacity

\* a read error on a stream, and the line read next on the same stream is
\* in the log, in the channel and in the buffer
C30_Witness ==
    \E k \in skipped :
        /\ k.why = "err"
        /\ Holds(logq[ReaderThread(k.run, k.stream)], k.run, k.stream, k.n + 1)
        /\ Holds(chan, k.run, k.stream, k.n + 1)
        /\ Holds(Items, k.run, k.stream, k.n + 1)

====
